---------------------------- MODULE Spec2Model ----------------------------
(***************************************************************************)
(* ADM (additive detail measure) filter of libavfilter/vf_adm.c.           *)
(*                                                                         *)
(* The state is one metric context (ADMData) with its arena, its scratch   *)
(* rows and its running statistics, the process-wide fixed-point filter    *)
(* tables, and the outputs of the last frame-pair evaluation.  The arena   *)
(* is addressed in int16 elements exactly as the C code addresses it.      *)
(*                                                                         *)
(* Numeric conventions:                                                    *)
(*   - int16 stores wrap (ToInt16); the int accumulator of adm_sum_cube    *)
(*     wraps modulo 2^32 and is kept as two 16-bit limbs;                  *)
(*   - the float gain of adm_decouple is evaluated with its float32        *)
(*     rounding (Float32MulBack);                                          *)
(*   - cbrt is the mathematical cube root;                                 *)
(*   - a double score is held in fixed point with FracBits fraction bits,  *)
(*     division rounding to nearest.                                       *)
(***************************************************************************)
EXTENDS Integers, Sequences, FiniteSets, TLC

(***************************************************************************)
(* Bounds of the model.                                                    *)
(***************************************************************************)
MaxW == 2
MaxH == 3
MaxFrames == 2

\* Filter instances created in one process.
MaxContexts == 2
FracBits == 12

\* Small band values of the decoupled pixel: -MaxBand..MaxBand.
MaxBand == 1

\* Small widths and heights of the pooled band: 1..MaxPool.
MaxPool == 3

\* Widths and heights of the plane filtered alone: 2..MaxPlane.
MaxPlane == 3

(***************************************************************************)
(* Program constants.                                                      *)
(***************************************************************************)
BIT_SHIFT == 15
MAX_ALIGN == 32
NUM_SCALES == 4
NUM_BUFS == 35
SAMPLE_BYTES == 2

(***************************************************************************)
(* Integer helpers.                                                        *)
(***************************************************************************)

Pow2(n) == 2 ^ n

\* x >> BIT_SHIFT on a signed int: arithmetic shift, i.e. floor division.
Asr(x, n) == x \div Pow2(n)

\* Conversion of an int to int16_t (two's complement wrap).
ToInt16(x) == ((x + 32768) % 65536) - 32768

\* FFABS as the macro of libavutil: on an int operand.
FFABS(x) == IF x >= 0 THEN x ELSE -x

\* ALIGN_CEIL(x): x rounded up to a multiple of MAX_ALIGN.
ALIGN_CEIL(x) ==
    x + (IF (x % MAX_ALIGN) # 0 THEN MAX_ALIGN - (x % MAX_ALIGN) ELSE 0)

\* A sequence built by a function constructor, evaluated once.
Force(s) == s \o << >>

\* Eval1(v, Op) is Op(v) with v evaluated once: TLC may evaluate a LET
\* definition or an operator argument again at every use.
Eval1(v, Op(_)) == CHOOSE r \in {Op(x) : x \in {v}} : TRUE

Eval2(v1, v2, Op(_, _)) ==
    CHOOSE r \in {Op(x, y) : x \in {v1}, y \in {v2}} : TRUE

Eval3(v1, v2, v3, Op(_, _, _)) ==
    CHOOSE r \in {Op(x, y, z) : x \in {v1}, y \in {v2}, z \in {v3}} : TRUE

\* lrint of num / 2^sh for an integer num: round to nearest, ties to even.
LrintShift(num, sh) ==
    LET d == Pow2(sh)
        q == num \div d
        r == num % d
    IN  IF 2 * r > d THEN q + 1
        ELSE IF 2 * r < d THEN q
        ELSE IF q % 2 = 0 THEN q ELSE q + 1

\* floor(2^e / m) and the remainder, by long division (2^e itself may not fit).
RECURSIVE DivPow2(_, _, _, _)
DivPow2(e, m, q, r) ==
    IF e = 0 THEN <<q, r>>
    ELSE LET r2 == 2 * r
         IN  IF r2 >= m THEN DivPow2(e - 1, m, 2 * q + 1, r2 - m)
             ELSE DivPow2(e - 1, m, 2 * q, r2)

\* lrint(2^e / m): round to nearest, ties to even.
LrintPow2Over(e, m) ==
    LET qr == DivPow2(e, m, 0, 1)
        q == qr[1]
        r == qr[2]
    IN  IF 2 * r > m THEN q + 1
        ELSE IF 2 * r < m THEN q
        ELSE IF q % 2 = 0 THEN q ELSE q + 1

(***************************************************************************)
(* Filter bank.  The float taps are given by their float32 value           *)
(* mantissa / 2^exponent.                                                  *)
(***************************************************************************)
dwt2_db2_coeffs_lo ==
    << [m |-> 16205546, e |-> 25], [m |-> 14034415, e |-> 24],
       [m |-> 15042040, e |-> 26], [m |-> -8684526, e |-> 26] >>

dwt2_db2_coeffs_hi ==
    << [m |-> -8684526, e |-> 26], [m |-> -15042040, e |-> 26],
       [m |-> 14034415, e |-> 24], [m |-> -16205546, e |-> 25] >>

\* A variant of FixedTap that truncates toward zero instead of rounding.
FixedTapTruncated(t) ==
    IF t.m >= 0 THEN t.m \div Pow2(t.e - BIT_SHIFT)
    ELSE -((-t.m) \div Pow2(t.e - BIT_SHIFT))

\* lrint(tap * (1 << BIT_SHIFT))
FixedTap(t) == LrintShift(t.m, t.e - BIT_SHIFT)

\* Q[scale][theta] as float32 values mantissa / 2^exponent.
Q ==
    << << [m |-> 15082362, e |-> 18], [m |-> 11125877, e |-> 16] >>,
       << [m |-> 16392334, e |-> 19], [m |-> 9166839,  e |-> 17] >>,
       << [m |-> 12088314, e |-> 19], [m |-> 10745322, e |-> 18] >>,
       << [m |-> 11479303, e |-> 19], [m |-> 16744050, e |-> 19] >> >>

\* rfactor[theta] of adm_csf: lrint((1.0 / Q[scale][c]) * (1 << BIT_SHIFT)),
\* with c = 0 for the H and V bands and 1 for the D band; kept in a uint16_t.
Rfactor(scale, theta) ==
    LET qv == Q[scale + 1][IF theta = 2 THEN 2 ELSE 1]
    IN  LrintPow2Over(qv.e + BIT_SHIFT, qv.m) % 65536

\* Mirror boundary: FFABS, then fold once at the far edge.
Mirror(k, n) ==
    LET a == FFABS(k)
    IN  IF a >= n THEN 2 * n - a - 1 ELSE a

(***************************************************************************)
(* float32 arithmetic on non-negative values, as used by the angle test of *)
(* adm_decouple.  A float is [m, e] with value m * 2^e and 0 <= m < 2^24;  *)
(* every operation rounds to nearest, ties to even.                        *)
(***************************************************************************)
\* Number of significant bits of x >= 0.
RECURSIVE BitLen(_)
BitLen(x) ==
    IF x >= 65536 THEN 16 + BitLen(x \div 65536)
    ELSE IF x >= 256 THEN 8 + BitLen(x \div 256)
    ELSE IF x >= 16 THEN 4 + BitLen(x \div 16)
    ELSE IF x >= 4 THEN 2 + BitLen(x \div 4)
    ELSE IF x >= 2 THEN 2
    ELSE IF x = 1 THEN 1 ELSE 0

\* Rounding step: kept is the truncated 24-bit mantissa, rem the dropped bits.
F32Round(kept, rem, half, e) ==
    LET k2 == IF rem > half \/ (rem = half /\ kept % 2 = 1) THEN kept + 1 ELSE kept
    IN  IF k2 = Pow2(24) THEN [m |-> Pow2(23), e |-> e + 1] ELSE [m |-> k2, e |-> e]

\* (float) x for an int 0 <= x < 2^31.
F32FromInt(x) ==
    Eval1(BitLen(x), LAMBDA n :
        IF n <= 24 THEN [m |-> x, e |-> 0]
        ELSE F32Round(x \div Pow2(n - 24), x % Pow2(n - 24), Pow2(n - 25), n - 24))

\* a * b in float.
F32Mul(a, b) ==
    LET a1 == a.m \div 4096
        a0 == a.m % 4096
        b1 == b.m \div 4096
        b0 == b.m % 4096
        cross == a1 * b0 + a0 * b1
        lot == a0 * b0 + (cross % 4096) * 4096
    IN  Eval2(lot % Pow2(24), a1 * b1 + (cross \div 4096) + (lot \div Pow2(24)),
              LAMBDA lo, hi :
        IF hi = 0 THEN [m |-> lo, e |-> a.e + b.e]
        ELSE Eval1(BitLen(hi), LAMBDA s :
                 F32Round(hi * Pow2(24 - s) + (lo \div Pow2(s)), lo % Pow2(s),
                          Pow2(s - 1), a.e + b.e + s)))

\* The same value with the mantissa's top bit at position 23.
F32Norm(a) ==
    IF a.m = 0 \/ a.m >= Pow2(23) THEN a
    ELSE LET s == 24 - BitLen(a.m)
         IN  [m |-> a.m * Pow2(s), e |-> a.e - s]

\* a >= b for non-negative floats.
F32Geq(a, b) ==
    Eval2(F32Norm(a), F32Norm(b), LAMBDA x, y :
        IF y.m = 0 THEN TRUE
        ELSE IF x.m = 0 THEN FALSE
        ELSE IF x.e # y.e THEN x.e > y.e
        ELSE x.m >= y.m)

\* cos_1deg_sq: the float nearest to cos(1 degree)^2, 16772106 / 2^24.
cos_1deg_sq == [m |-> 16772106, e |-> -24]

(***************************************************************************)
(* adm_decouple, one pixel.                                                *)
(***************************************************************************)
\* A variant of AngleFlag whose first test is ot_dp > 0.
AngleFlagPositive(oh, ov, th, tv) ==
    LET p1 == oh * th
        p2 == ov * tv
        o_wrap == (oh = -32768 /\ ov = -32768)
        t_wrap == (th = -32768 /\ tv = -32768)
    IN  IF p1 = Pow2(30) /\ p2 = Pow2(30) THEN FALSE
        ELSE IF p1 + p2 <= 0 THEN FALSE
        ELSE IF o_wrap \/ t_wrap THEN TRUE
        ELSE Eval3(F32FromInt(p1 + p2), F32FromInt(oh * oh + ov * ov),
                   F32FromInt(th * th + tv * tv),
                   LAMBDA ot_dp, o_mag_sq, t_mag_sq :
             Eval2(F32Mul(ot_dp, ot_dp), F32Mul(cos_1deg_sq, o_mag_sq),
                   LAMBDA lhs, c_o :
             Eval1(F32Mul(c_o, t_mag_sq), LAMBDA rhs : F32Geq(lhs, rhs))))

\* angle_flag.  ot_dp, o_mag_sq and t_mag_sq are int expressions converted to
\* float; an int sum that reaches 2^31 wraps to INT_MIN (only when both
\* addends are 2^30).
AngleFlag(oh, ov, th, tv) ==
    LET p1 == oh * th
        p2 == ov * tv
        o_wrap == (oh = -32768 /\ ov = -32768)
        t_wrap == (th = -32768 /\ tv = -32768)
    IN  IF p1 = Pow2(30) /\ p2 = Pow2(30) THEN FALSE
        ELSE IF p1 + p2 < 0 THEN FALSE
        ELSE IF o_wrap \/ t_wrap THEN TRUE
        ELSE Eval3(F32FromInt(p1 + p2), F32FromInt(oh * oh + ov * ov),
                   F32FromInt(th * th + tv * tv),
                   LAMBDA ot_dp, o_mag_sq, t_mag_sq :
             Eval2(F32Mul(ot_dp, ot_dp), F32Mul(cos_1deg_sq, o_mag_sq),
                   LAMBDA lhs, c_o :
             Eval1(F32Mul(c_o, t_mag_sq), LAMBDA rhs : F32Geq(lhs, rhs))))

\* (r * 2^n) mod o for 0 <= r < o <= 2^15, fifteen bits at a time.
RECURSIVE ShiftMod(_, _, _)
ShiftMod(r, o, n) ==
    IF n <= 15 THEN (r * Pow2(n)) % o
    ELSE ShiftMod((r * Pow2(15)) % o, o, n - 15)

\* Least k >= 1 with t * 2^k >= o, for 0 < t < o.
GainShift(t, o) ==
    LET d == BitLen(o) - BitLen(t)
    IN  IF d >= 1 /\ t * Pow2(d) >= o THEN d ELSE d + 1

\* For 0 < t < o: the sign of  k * o - t  where k = (float)(t * (1.0 / o)) and
\* the product is rounded to float: -1, 0 or 1.
Float32MulBack(t, o) ==
    Eval2(GainShift(t, o), BitLen(t) - 1, LAMBDA k, p :
    Eval1(ShiftMod(t, o, 23 + k), LAMBDA r :
        LET up == 2 * r > o
            delta == IF up THEN o - r ELSE r
            lim == Pow2(p - 1 + k)
        IN  IF delta = 0 THEN 0
            ELSE IF up THEN (IF delta <= lim THEN 0 ELSE 1)
            ELSE IF t = Pow2(p) THEN (IF 2 * delta <= lim THEN 0 ELSE -1)
            ELSE (IF delta <= lim THEN 0 ELSE -1)))

\* A variant of DecoupleOne whose additive part is taken against the
\* reference value instead of the restored one.
DecoupleOneAgainstRef(o, t, angle_flag) ==
    IF angle_flag THEN <<t, 0>>
    ELSE IF o = 0 \/ t = 0 \/ (o < 0) # (t < 0) THEN <<0, t - o>>
    ELSE IF FFABS(t) >= FFABS(o) THEN <<o, t - o>>
    ELSE <<t, t - o>>

\* One orientation: the restored and additive values <<r, a>> for reference
\* value o and distorted value t, given the pixel's angle flag.
\* DIVS(t, o + eps) expands to t * (1.0 / o + eps).  For o = 0 the gain is
\* +-inf, clamped to 0 or 1, or NaN when t = 0 too; the NaN reaches both int16
\* stores, where the float-to-integer conversion of x86-64 and of AArch64
\* builds leaves 0.
DecoupleOne(o, t, angle_flag) ==
    IF angle_flag THEN <<t, 0>>
    ELSE IF o = 0 THEN <<0, t>>
    ELSE IF t = 0 THEN <<0, 0>>
    ELSE IF (o < 0) # (t < 0) THEN <<0, t>>
    ELSE IF FFABS(t) >= FFABS(o) THEN <<o, t - o>>
    ELSE Eval1(Float32MulBack(FFABS(t), FFABS(o)), LAMBDA d :
             LET sd == IF t > 0 THEN d ELSE -d
             IN  IF sd > 0 THEN <<t + 1, 0>>
                 ELSE IF sd < 0 THEN <<t, 1>>
                 ELSE <<t, 0>>)

\* One pixel of adm_decouple: o and t are the <<h, v, d>> values of the
\* reference and the distorted quad.
adm_decouple(o, t) ==
    Eval1(AngleFlag(o[1], o[2], t[1], t[2]), LAMBDA angle_flag :
    Eval3(DecoupleOne(o[1], t[1], angle_flag), DecoupleOne(o[2], t[2], angle_flag),
          DecoupleOne(o[3], t[3], angle_flag), LAMBDA rh, rv, rd :
        [r |-> <<ToInt16(rh[1]), ToInt16(rv[1]), ToInt16(rd[1])>>,
         a |-> <<ToInt16(rh[2]), ToInt16(rv[2]), ToInt16(rd[2])>>]))

(***************************************************************************)
(* adm_csf, adm_cm_thresh and adm_cm, one pixel.                           *)
(***************************************************************************)
\* (rfactor * src) >> BIT_SHIFT stored to an int16_t.
adm_csf(rfactor, v) == ToInt16(Asr(rfactor * v, BIT_SHIFT))

\* lrint(n / d) for n, d > 0: round to nearest, ties to even.
LrintRatio(n, d) ==
    LET q == n \div d
        r == n % d
    IN  IF 2 * r > d THEN q + 1
        ELSE IF 2 * r < d THEN q
        ELSE IF q % 2 = 0 THEN q ELSE q + 1

\* filt_coeff of adm_cm_thresh: lrint(1.0 / 15.0 or 1.0 / 30.0) * (1 << BIT_SHIFT):
\* the rounding is applied to the tap before the scaling.
cm_filt_coeff(filt_i, filt_j) ==
    LrintRatio(1, IF filt_i = 1 /\ filt_j = 1 THEN 15 ELSE 30) * Pow2(BIT_SHIFT)

\* The 3x3 sum of adm_cm_thresh for one orientation at pixel (i, j); band
\* holds the w * h values of the source band, row by row.
CmThreshSum(band, i, j, w, h) ==
    LET Term(n) ==
            LET filt_i == n \div 3
                filt_j == n % 3
                src_i == Mirror(i - 1 + filt_i, h)
                src_j == Mirror(j - 1 + filt_j, w)
            IN  cm_filt_coeff(filt_i, filt_j) * FFABS(band[src_i * w + src_j + 1])
    IN  Term(0) + Term(1) + Term(2) + Term(3) + Term(4) + Term(5)
          + Term(6) + Term(7) + Term(8)

\* dst[i][j] of adm_cm_thresh: zeroed, then += sum >> BIT_SHIFT per orientation,
\* each store to an int16_t.
adm_cm_thresh(bh, bv, bd, i, j, w, h) ==
    LET t1 == ToInt16(0 + Asr(CmThreshSum(bh, i, j, w, h), BIT_SHIFT))
        t2 == ToInt16(t1 + Asr(CmThreshSum(bv, i, j, w, h), BIT_SHIFT))
    IN  ToInt16(t2 + Asr(CmThreshSum(bd, i, j, w, h), BIT_SHIFT))

\* One band value of adm_cm: max(0, FFABS(x) - thr) stored to an int16_t.
adm_cm(x, thr) ==
    LET d == FFABS(x) - thr
    IN  ToInt16(IF d < 0 THEN 0 ELSE d)

(***************************************************************************)
(* adm_sum_cube.  The int accumulator is a pair <<hi, lo>> of 16-bit limbs *)
(* holding its value modulo 2^32.                                          *)
(***************************************************************************)
ADM_BORDER_FACTOR_DEN == 10

\* (int) (n * ADM_BORDER_FACTOR - 0.5): truncation toward zero.
BorderStart(n) ==
    LET num == 2 * n - ADM_BORDER_FACTOR_DEN
        den == 2 * ADM_BORDER_FACTOR_DEN
    IN  IF num >= 0 THEN num \div den ELSE -((-num) \div den)

\* get_cube(val): val * val * val in int for an int16_t val.
get_cube(v) ==
    LET val == ToInt16(v)
    IN  IF val < 0 THEN
            \* only -32768 arrives here (the argument is an FFABS): -2^45
            <<0, 0>>
        ELSE LET sq == val * val
                 sh == sq \div 65536
                 sl == sq % 65536
                 low == sl * val
             IN  <<(sh * val + (low \div 65536)) % 65536, low % 65536>>

Add32(a, b) ==
    LET lo == a[2] + b[2]
    IN  <<(a[1] + b[1] + (lo \div 65536)) % 65536, lo % 65536>>

\* Least n in lo..hi with n^3 >= s (hi^3 >= s is given, hi <= 1290).
RECURSIVE CbrtSearch(_, _, _)
CbrtSearch(lo, hi, s) ==
    IF lo >= hi THEN hi
    ELSE Eval1((lo + hi) \div 2, LAMBDA mid :
             IF mid * mid * mid >= s THEN CbrtSearch(lo, mid, s)
             ELSE CbrtSearch(mid + 1, hi, s))

\* Greatest n in lo..hi with n^3 - 1 <= m1 (lo qualifies, hi <= 1290).
RECURSIVE FloorCbrtSearch(_, _, _)
FloorCbrtSearch(lo, hi, m1) ==
    IF lo >= hi THEN lo
    ELSE Eval1((lo + hi + 1) \div 2, LAMBDA mid :
             IF mid * mid * mid - 1 <= m1 THEN FloorCbrtSearch(mid, hi, m1)
             ELSE FloorCbrtSearch(lo, mid - 1, m1))

\* ceil(cbrt(sum)) for the accumulator read as a signed int.
CeilCbrt32(acc) ==
    IF acc[1] < 32768 THEN
        Eval1(acc[1] * 65536 + acc[2], LAMBDA s :
            IF s > 1290 * 1290 * 1290 THEN 1291 ELSE CbrtSearch(0, 1290, s))
    ELSE
        \* negative sum: -floor(cbrt(|sum|)), with m1 = |sum| - 1
        Eval1((65535 - acc[1]) * 65536 + (65535 - acc[2]), LAMBDA m1 :
            -FloorCbrtSearch(0, 1290, m1))

\* A variant of CeilCbrtArea without the area term.
CeilCbrtAreaNone(area, n) == 0

\* ceil(cbrt(area / 32.0)): least n with 32 n^3 >= area.
RECURSIVE CeilCbrtArea(_, _)
CeilCbrtArea(area, n) ==
    IF 32 * n * n * n >= area THEN n ELSE CeilCbrtArea(area, n + 1)

\* The inner loop over j of adm_sum_cube, for row i.
RECURSIVE SumCubesRow(_, _, _, _, _, _)
SumCubesRow(x, w, i, j, right, acc) ==
    IF j >= right THEN acc
    ELSE Eval1(Add32(acc, get_cube(FFABS(x[i * w + j + 1]))), LAMBDA a :
             SumCubesRow(x, w, i, j + 1, right, a))

\* The outer loop over i.
RECURSIVE SumCubes(_, _, _, _, _, _, _)
SumCubes(x, w, i, left, right, bottom, acc) ==
    IF i >= bottom THEN acc
    ELSE Eval1(SumCubesRow(x, w, i, left, right, acc), LAMBDA a :
             SumCubes(x, w, i + 1, left, right, bottom, a))

\* adm_sum_cube over a band; x holds its w * h values, row by row.
adm_sum_cube(x, w, h) ==
    LET left == BorderStart(w)
        top == BorderStart(h)
        right == w - left
        bottom == h - top
    IN  Eval1(SumCubes(x, w, top, left, right, bottom, <<0, 0>>), LAMBDA sum :
            ToInt16(CeilCbrt32(sum)
                    + CeilCbrtArea((bottom - top) * (right - left), 0)))

(***************************************************************************)
(* Arena geometry, as computed in ff_adm_init and ff_adm_process.  Offsets *)
(* and strides are in int16 elements.                                      *)
(***************************************************************************)
\* buf_stride in bytes.
BufStride(w) == ALIGN_CEIL(((w + 1) \div 2) * SAMPLE_BYTES)

\* buf_stride / sizeof(int16_t).
BufPxStride(w) == BufStride(w) \div SAMPLE_BYTES

\* buf_sz / sizeof(int16_t): elements of one buffer of the arena.
BufElems(w, h) == (BufStride(w) * ((h + 1) \div 2)) \div SAMPLE_BYTES

\* Elements of the arena allocated by ff_adm_init.
ArenaElems(w, h) == NUM_BUFS * BufElems(w, h)

\* Elements of one scratch row allocated by ff_adm_init.
TempElems(w) == ALIGN_CEIL(w * SAMPLE_BYTES) \div SAMPLE_BYTES

\* init_dwt_band: element offsets of the four bands of a quad at buffer n.
init_dwt_band(n, B) ==
    [band_a |-> n * B, band_h |-> (n + 1) * B,
     band_v |-> (n + 2) * B, band_d |-> (n + 3) * B]

\* The buffers carved out of the arena by ff_adm_process, in order.
REF_SCALE == 0
MAIN_SCALE == 1
REF_DWT2 == 2
MAIN_DWT2 == 6
DECOUPLE_R == 10
DECOUPLE_A == 14
CSF_O == 18
CSF_R == 22
CSF_A == 26
MTA == 30
CM_R == 31

\* A read of element idx of a buffer of n elements; a read outside it
\* yields whatever the neighbouring memory holds (oobv).
MemRead(mem, idx, oobv) ==
    IF idx >= 0 /\ idx < Len(mem) THEN mem[idx + 1] ELSE oobv

(***************************************************************************)
(* adm_dwt2_8bit / adm_dwt2_10bit / adm_dwt2_32bit: the three instances of *)
(* adm_dwt2_fn differ only in the sample type of src.                      *)
(***************************************************************************)
\* One iteration i of the outer loop: the vertical pass into the scratch
\* rows, then the two horizontal passes.  src = [mem, base, px_stride] is the
\* memory src points into, the element it points at and its stride.
adm_dwt2_row(src, filter_lo, filter_hi, w, h, i, oobv) ==
    LET Src(r, c) == MemRead(src.mem, src.base + r * src.px_stride + c, oobv)
        Vert(filter, j) ==
            filter[1] * Src(Mirror(2 * i - 1 + 0, h), j)
          + filter[2] * Src(Mirror(2 * i - 1 + 1, h), j)
          + filter[3] * Src(Mirror(2 * i - 1 + 2, h), j)
          + filter[4] * Src(Mirror(2 * i - 1 + 3, h), j)
        \* the scratch rows hold w written elements; index -1 lies before them
        Temp(t, c) == IF c >= 0 /\ c < w THEN t[c + 1] ELSE oobv
        Horiz(filter, t, j) ==
            filter[1] * Temp(t, Mirror(2 * j - 1 + 0, w))
          + filter[2] * Temp(t, Mirror(2 * j - 1 + 1, w))
          + filter[3] * Temp(t, Mirror(2 * j - 1 + 2, w))
          + filter[4] * Temp(t, Mirror(2 * j - 1 + 3, w))
        Out(filter, t) ==
            Force([j \in 1..((w + 1) \div 2) |->
                      ToInt16(Asr(Horiz(filter, t, j - 1), BIT_SHIFT))])
    IN  Eval2(Force([j \in 1..w |-> ToInt16(Asr(Vert(filter_lo, j - 1), BIT_SHIFT))]),
              Force([j \in 1..w |-> ToInt16(Asr(Vert(filter_hi, j - 1), BIT_SHIFT))]),
              LAMBDA t_lo, t_hi :
        [temp_lo |-> t_lo, temp_hi |-> t_hi,
         band_a |-> Out(filter_lo, t_lo), band_v |-> Out(filter_hi, t_lo),
         band_h |-> Out(filter_lo, t_hi), band_d |-> Out(filter_hi, t_hi)])

\* mem with the elements of seq stored from element at (counted from 0) on.
Splice(mem, at, seq) ==
    Eval2(mem, seq, LAMBDA m, q :
        SubSeq(m, 1, at) \o q \o SubSeq(m, at + Len(q) + 1, Len(m)))

\* The arena after row i of a quad at buffer dst has been stored.
StoreRow(buf, dst, row, i, w, B, S) ==
    LET base == dst * B + i * S
    IN  Splice(Splice(Splice(Splice(buf, base, row.band_a),
                             base + B, row.band_h),
                      base + 2 * B, row.band_v),
               base + 3 * B, row.band_d)

\* The scratch row after the vertical pass stored its first w elements.
StoreTemp(temp, row) ==
    Force([k \in 1..Len(temp) |-> IF k <= Len(row) THEN row[k] ELSE temp[k]])

\* adm_dwt2_*: all rows.  st = [buf, temp_lo, temp_hi]; src = [plane, base,
\* px_stride]: the input plane, or << >> for the arena itself at element base;
\* filter = [lo, hi]; dims holds s->width and s->height.
RECURSIVE adm_dwt2(_, _, _, _, _, _, _)
adm_dwt2(st, src, dst, filter, dims, oobv, i) ==
    IF i >= (dims.h + 1) \div 2 THEN st
    ELSE
        Eval3(adm_dwt2_row([mem |-> IF src.plane = << >> THEN st.buf ELSE src.plane,
                            base |-> src.base, px_stride |-> src.px_stride],
                           filter.lo, filter.hi, dims.w, dims.h, i, oobv),
              BufElems(dims.w, dims.h), BufPxStride(dims.w),
              LAMBDA row, B, S :
            Eval1([buf |-> StoreRow(st.buf, dst, row, i, dims.w, B, S),
                   temp_lo |-> StoreTemp(st.temp_lo, row.temp_lo),
                   temp_hi |-> StoreTemp(st.temp_hi, row.temp_hi)],
                  LAMBDA st2 :
                adm_dwt2(st2, src, dst, filter, dims, oobv, i + 1)))

(***************************************************************************)
(* One scale of ff_adm_process after the two DWT calls: adm_decouple, the  *)
(* three adm_csf calls, adm_cm_thresh, adm_cm, the six adm_sum_cube calls  *)
(* and the two adm_buffer_copy calls.  w and h are the halved working      *)
(* dimensions; every stage visits the pixels (i, j), i < h, j < w, of its  *)
(* buffers with stride S, reads buffers no stage of the scale writes, and  *)
(* the stages run in the order of the code.                                *)
(***************************************************************************)
Band(buf, n, B, S, i, j) == buf[n * B + i * S + j + 1]

\* Everything the stages compute for pixel (i, j), from the two DWT quads.
ScalePixel(buf, scale, B, S, i, j) ==
    Eval3(<<Band(buf, REF_DWT2 + 1, B, S, i, j),
            Band(buf, REF_DWT2 + 2, B, S, i, j),
            Band(buf, REF_DWT2 + 3, B, S, i, j)>>,
          <<Band(buf, MAIN_DWT2 + 1, B, S, i, j),
            Band(buf, MAIN_DWT2 + 2, B, S, i, j),
            Band(buf, MAIN_DWT2 + 3, B, S, i, j)>>,
          <<Rfactor(scale, 0), Rfactor(scale, 1), Rfactor(scale, 2)>>,
          LAMBDA o, t, rf :
        Eval1(adm_decouple(o, t), LAMBDA dec :
            LET Csf(x) == <<adm_csf(rf[1], x[1]), adm_csf(rf[2], x[2]),
                            adm_csf(rf[3], x[3])>>
            IN  [r |-> dec.r, a |-> dec.a,
                 csf_o |-> Csf(o), csf_r |-> Csf(dec.r), csf_a |-> Csf(dec.a)]))

\* Pixels are numbered i * w + j + 1.
ScalePixels(buf, scale, B, S, w, h) ==
    Force([p \in 1..(w * h) |->
              ScalePixel(buf, scale, B, S, (p - 1) \div w, (p - 1) % w)])

\* mta, the masking threshold plane.
ScaleThresh(px, w, h) ==
    Eval3(Force([p \in 1..(w * h) |-> px[p].csf_a[1]]),
          Force([p \in 1..(w * h) |-> px[p].csf_a[2]]),
          Force([p \in 1..(w * h) |-> px[p].csf_a[3]]), LAMBDA ah, av, ad :
        Force([p \in 1..(w * h) |->
                  adm_cm_thresh(ah, av, ad, (p - 1) \div w, (p - 1) % w, w, h)]))

\* cm_r, the masked restored bands <<h, v, d>> per pixel.
ScaleMasked(px, mta, w, h) ==
    Force([p \in 1..(w * h) |->
              <<adm_cm(px[p].csf_r[1], mta[p]),
                adm_cm(px[p].csf_r[2], mta[p]),
                adm_cm(px[p].csf_r[3], mta[p])>>])

\* The arena after the stages of the scale and the two approximation copies.
ScaleStore(buf, px, mta, cm_r, B, S, w, h) ==
    Force([k \in 1..Len(buf) |->
        LET n == (k - 1) \div B
            off == (k - 1) % B
            i == off \div S
            j == off % S
            p == i * w + j + 1
        IN  IF i < h /\ j < w
            THEN CASE n = REF_SCALE -> buf[REF_DWT2 * B + off + 1]
                   [] n = MAIN_SCALE -> buf[MAIN_DWT2 * B + off + 1]
                   [] n \in {DECOUPLE_R + 1, DECOUPLE_R + 2, DECOUPLE_R + 3}
                        -> px[p].r[n - DECOUPLE_R]
                   [] n \in {DECOUPLE_A + 1, DECOUPLE_A + 2, DECOUPLE_A + 3}
                        -> px[p].a[n - DECOUPLE_A]
                   [] n \in {CSF_O + 1, CSF_O + 2, CSF_O + 3} -> px[p].csf_o[n - CSF_O]
                   [] n \in {CSF_R + 1, CSF_R + 2, CSF_R + 3} -> px[p].csf_r[n - CSF_R]
                   [] n \in {CSF_A + 1, CSF_A + 2, CSF_A + 3} -> px[p].csf_a[n - CSF_A]
                   [] n = MTA -> mta[p]
                   [] n \in {CM_R + 1, CM_R + 2, CM_R + 3} -> cm_r[p][n - CM_R]
                   [] OTHER -> buf[k]
            ELSE buf[k]])

\* num_scale and den_scale: three adm_sum_cube results each, added in float.
ScaleNum(cm_r, w, h) ==
    Eval3(Force([p \in 1..(w * h) |-> cm_r[p][1]]),
          Force([p \in 1..(w * h) |-> cm_r[p][2]]),
          Force([p \in 1..(w * h) |-> cm_r[p][3]]), LAMBDA xh, xv, xd :
        adm_sum_cube(xh, w, h) + adm_sum_cube(xv, w, h) + adm_sum_cube(xd, w, h))

ScaleDen(px, w, h) ==
    Eval3(Force([p \in 1..(w * h) |-> px[p].csf_o[1]]),
          Force([p \in 1..(w * h) |-> px[p].csf_o[2]]),
          Force([p \in 1..(w * h) |-> px[p].csf_o[3]]), LAMBDA xh, xv, xd :
        adm_sum_cube(xh, w, h) + adm_sum_cube(xv, w, h) + adm_sum_cube(xd, w, h))

(***************************************************************************)
(* ff_adm_process.                                                         *)
(***************************************************************************)
\* x < numden_limit, numden_limit = 1e-2 * (w * h) / (1920.0 * 1080.0), for an
\* integral x: x * 100 * 1920 * 1080 < w * h.
BelowLimit(x, w, h) ==
    IF x <= 0 THEN x < 0 \/ w * h > 0
    ELSE x <= (w * h - 1) \div (100 * 1920 * 1080)

\* num / den as a double: fixed point with FracBits fraction bits, rounded to
\* nearest (0 <= num, 0 < den).
ScoreDiv(num, den) ==
    LET q == num \div den
        r == num % den
        f == (r * Pow2(FracBits)) \div den
        r2 == (r * Pow2(FracBits)) % den
    IN  q * Pow2(FracBits) + f + (IF 2 * r2 >= den THEN 1 ELSE 0)

ScoreOne == Pow2(FracBits)

\* sizeof(type) of the scale-0 source: uint8_t when depth <= 8, else uint16_t.
SampleSize(depth) == IF depth <= 8 THEN 1 ELSE 2

\* The two DWT calls of a scale.  Scale 0 reads the input planes with the
\* frames' own strides; later scales read ref_scale and main_scale.
\* int w = s->width; int h = s->height; of adm_dwt2_fn: the dimensions the
\* transform runs over, whatever the working dimensions w_k, h_k are.
DwtDims(ctx, w_k, h_k) == [w |-> ctx.width, h |-> ctx.height]

\* The source rows the vertical pass reads and the scratch-row columns the
\* horizontal passes read (src_i and src_j after the reflection).
DwtSrcRows(h) ==
    {Mirror(2 * p[1] - 1 + p[2], h) : p \in (0..((h + 1) \div 2 - 1)) \X (0..3)}

DwtTempCols(w) ==
    {Mirror(2 * p[1] - 1 + p[2], w) : p \in (0..((w + 1) \div 2 - 1)) \X (0..3)}

ScaleDwt(st, ctx, ref, main, scale, w_k, h_k, oobv) ==
    Eval3(DwtDims(ctx, w_k, h_k), BufElems(ctx.width, ctx.height),
          BufPxStride(ctx.width), LAMBDA dims, B, S :
    Eval3(IF scale = 0
          THEN [plane |-> ref.data, base |-> 0,
                px_stride |-> ref.linesize \div SampleSize(ctx.depth)]
          ELSE [plane |-> << >>, base |-> REF_SCALE * B, px_stride |-> S],
          IF scale = 0
          THEN [plane |-> main.data, base |-> 0,
                px_stride |-> main.linesize \div SampleSize(ctx.depth)]
          ELSE [plane |-> << >>, base |-> MAIN_SCALE * B, px_stride |-> S],
          [lo |-> ctx.filter_lo, hi |-> ctx.filter_hi],
          LAMBDA curr_ref_scale, curr_main_scale, filter :
        Eval1(adm_dwt2(st, curr_ref_scale, REF_DWT2, filter, dims, oobv, 0),
              LAMBDA st1 :
            adm_dwt2(st1, curr_main_scale, MAIN_DWT2, filter, dims, oobv, 0))))

\* One iteration of the loop over the scales.  acc = [scale, st, w, h, num,
\* den, scores, dwt] is the state at the head of the loop; dwt records, per
\* scale, the working dimensions on entry, the dimensions and the reflected
\* indices the transform used, and the dimensions the later stages used.
ScaleStep(acc, ctx, ref, main, oobv) ==
    Eval3(ScaleDwt(acc.st, ctx, ref, main, acc.scale, acc.w, acc.h, oobv),
          BufElems(ctx.width, ctx.height), BufPxStride(ctx.width),
          LAMBDA st1, B, S :
    Eval3((acc.w + 1) \div 2, (acc.h + 1) \div 2, DwtDims(ctx, acc.w, acc.h),
          LAMBDA w, h, dims :
    Eval1(ScalePixels(st1.buf, acc.scale, B, S, w, h), LAMBDA px :
    Eval1(ScaleThresh(px, w, h), LAMBDA mta :
    Eval1(ScaleMasked(px, mta, w, h), LAMBDA cm_r :
    Eval2(ScaleNum(cm_r, w, h), ScaleDen(px, w, h), LAMBDA num_scale, den_scale :
        [scale |-> acc.scale + 1,
         st |-> [buf |-> ScaleStore(st1.buf, px, mta, cm_r, B, S, w, h),
                 temp_lo |-> st1.temp_lo, temp_hi |-> st1.temp_hi],
         w |-> w, h |-> h,
         num |-> acc.num + num_scale, den |-> acc.den + den_scale,
         scores |-> acc.scores \o <<num_scale, den_scale>>,
         dwt |-> Append(acc.dwt,
                        [w_k |-> acc.w, h_k |-> acc.h, dims |-> dims,
                         rows |-> DwtSrcRows(dims.h), cols |-> DwtTempCols(dims.w),
                         w |-> w, h |-> h])]))))))

\* for (scale = 0; scale < 4; scale++)
RECURSIVE ProcessScales(_, _, _, _, _)
ProcessScales(acc, ctx, ref, main, oobv) ==
    IF acc.scale >= NUM_SCALES THEN acc
    ELSE Eval1(ScaleStep(acc, ctx, ref, main, oobv), LAMBDA next :
             ProcessScales(next, ctx, ref, main, oobv))

\* A variant of ClampLimit that keeps the magnitude of a negative sum.
ClampLimitMagnitude(x, w, h) == IF x < 0 THEN -x ELSE x

\* Replace a sum below the noise floor by zero.
ClampLimit(x, w, h) == IF BelowLimit(x, w, h) THEN 0 ELSE x

\* ff_adm_process: ctx = [width, height, depth, filter_lo, filter_hi], st the
\* arena and the scratch rows.  The result holds the new arena and scratch
\* rows and the outputs *score, *score_num, *score_den and scores[8].
ff_adm_process(st, ctx, ref, main, oobv) ==
    Eval1(<<st, ctx, ref, main, oobv>>, LAMBDA in :
    Eval1(ProcessScales([scale |-> 0, st |-> in[1],
                         w |-> in[2].width, h |-> in[2].height,
                         num |-> 0, den |-> 0, scores |-> << >>, dwt |-> << >>],
                        in[2], in[3], in[4], in[5]), LAMBDA acc :
    Eval2(ClampLimit(acc.num, in[2].width, in[2].height),
          ClampLimit(acc.den, in[2].width, in[2].height), LAMBDA num, den :
        [st |-> acc.st,
         score |-> IF den = 0 THEN ScoreOne ELSE ScoreDiv(num, den),
         score_num |-> num, score_den |-> den, scores |-> acc.scores,
         dwt |-> acc.dwt])))

(***************************************************************************)
(* Memory returned by av_malloc is not initialised.  Its contents are a    *)
(* choice of the allocator: seed 0 stands for zero-filled pages, any other *)
(* seed for stale heap data.  Cell idx counts int16_t elements from the    *)
(* start of the arena; the scratch rows follow it.                         *)
(***************************************************************************)
Garbage(seed, idx) ==
    IF seed = 0 THEN 0
    ELSE ((idx * idx * 7 + idx * seed * 13 + seed) % 65536) - 32768

AllocArena(seed, w, h) ==
    Force([k \in 1..ArenaElems(w, h) |-> Garbage(seed, k - 1)])

AllocTempLo(seed, w, h) ==
    Force([k \in 1..TempElems(w) |-> Garbage(seed, ArenaElems(w, h) + k - 1)])

AllocTempHi(seed, w, h) ==
    Force([k \in 1..TempElems(w) |->
              Garbage(seed, ArenaElems(w, h) + TempElems(w) + k - 1)])

\* What a load outside every allocation yields.
OutOfBoundsValue(seed, w, h) ==
    Garbage(seed, ArenaElems(w, h) + 2 * TempElems(w))

(***************************************************************************)
(* Inputs: pixel formats, allocator behaviour and frame pairs.             *)
(***************************************************************************)
\* comp[0].depth of the pixel formats a context is initialised with.
Depths == {8, 10, 12}

\* Zero-filled memory and one stale heap.
Seeds == {0, 5774}

MaxSample(depth) == Pow2(depth) - 1

\* One sample of a test plane.
Sample(pat, i, j, depth) ==
    CASE pat = "black" -> 0
      [] pat = "dot" -> IF i = 0 /\ j = 0 THEN MaxSample(depth) ELSE 0
      [] OTHER -> (MaxSample(depth) + 1) \div 2

\* An AVFrame: plane 0 in samples, row-major with linesize bytes per row.
Frame(pat, fw, fh, depth) ==
    [data |-> Force([k \in 1..(fw * fh) |->
                        Sample(pat, (k - 1) \div fw, (k - 1) % fw, depth)]),
     linesize |-> fw * SampleSize(depth), width |-> fw, height |-> fh]

\* The frame pairs ff_framesync_dualinput_get delivers.  "wide" frames are
\* one column wider than the configured context.
Pairs == {"black", "dot", "distorted", "wide"}

RefFrame(pair, w, h, depth) ==
    CASE pair = "black" -> Frame("black", w, h, depth)
      [] pair = "wide" -> Frame("dot", w + 1, h, depth)
      [] OTHER -> Frame("dot", w, h, depth)

MainFrame(pair, w, h, depth) ==
    CASE pair = "black" -> Frame("black", w, h, depth)
      [] pair = "distorted" -> Frame("gray", w, h, depth)
      [] pair = "wide" -> Frame("dot", w + 1, h, depth)
      [] OTHER -> Frame("dot", w, h, depth)

(***************************************************************************)
(* The state.                                                              *)
(***************************************************************************)
VARIABLES
    phase,      \* "new", "ready" (ff_adm_init returned 0), "nomem", "closed";
                \* "pixel" and "decoupled" when one pixel is decoupled alone,
                \* "band" and "pooled" when one band is pooled alone,
                \* "bands" and "thresholded", "plane" and "transformed"
                \* when one plane is filtered alone
    width, height, depth,           \* s->width, s->height, s->desc->comp[0].depth
    data_buf, temp_lo, temp_hi,     \* the arena and the two scratch rows
    adm_sum, nb_frames,             \* running sum of scores and frame count
    dwt2_db2_coeffs_lo_int,         \* the static fixed-point filter tables
    dwt2_db2_coeffs_hi_int,
    out,        \* score, score_num, score_den and scores[8] of the last call
    average,    \* the value ff_adm_uninit returned
    heap,       \* the allocator's choice for this context (history)
    seen,       \* the scores returned so far, in order (history)
    call,       \* the last frame pair and what its evaluation touched (history)
    band_in,    \* one pixel handed to adm_decouple: [o, t], each <<h, v, d>>;
                \* the band handed to adm_sum_cube, or the plane handed to
                \* adm_cm_thresh or adm_dwt2_8bit: [x, w, h]
    contexts,   \* the ADMContext instances created in the process so far
    band_out    \* what adm_decouple stored for it: [r, a], each <<h, v, d>>;
                \* what adm_sum_cube returned; the plane adm_cm_thresh
                \* or the quad adm_dwt2_8bit stored

vars == <<phase, width, height, depth, data_buf, temp_lo, temp_hi, adm_sum,
          nb_frames, dwt2_db2_coeffs_lo_int, dwt2_db2_coeffs_hi_int, out,
          average, heap, seen, call, band_in, band_out, contexts>>

NoOut == [score |-> 0, score_num |-> 0, score_den |-> 0, scores |-> << >>]

\* call.clean: every cell the evaluation could read held zero beforehand;
\* call.prev: the pair and the outputs of the evaluation before it.
NoCall ==
    [pair |-> "none", wrote |-> FALSE, clean |-> FALSE, dwt |-> << >>,
     prev |-> [pair |-> "none", out |-> NoOut]]

NoBand == <<0, 0, 0>>

\* A zero-initialised ADMContext; the static tables are zero until ff_adm_init.
InitContext ==
    /\ width = 0 /\ height = 0 /\ depth = 0
    /\ data_buf = << >> /\ temp_lo = << >> /\ temp_hi = << >>
    /\ adm_sum = 0 /\ nb_frames = 0
    /\ dwt2_db2_coeffs_lo_int = <<0, 0, 0, 0>>
    /\ dwt2_db2_coeffs_hi_int = <<0, 0, 0, 0>>
    /\ out = NoOut
    /\ average = 0
    /\ heap = 0
    /\ seen = << >>
    /\ call = NoCall
    /\ contexts = 1

Init ==
    /\ phase = "new"
    /\ InitContext
    /\ band_in = [o |-> NoBand, t |-> NoBand]
    /\ band_out = [r |-> NoBand, a |-> NoBand]

(***************************************************************************)
(* Operations.                                                             *)
(***************************************************************************)
\* ff_adm_init with every allocation succeeding.  seed is what av_malloc left
\* in the three buffers.  The running statistics are not touched.
ff_adm_init(w, h, d, seed) ==
    /\ phase = "new"
    /\ width' = w /\ height' = h /\ depth' = d
    /\ data_buf' = AllocArena(seed, w, h)
    /\ temp_lo' = AllocTempLo(seed, w, h)
    /\ temp_hi' = AllocTempHi(seed, w, h)
    /\ dwt2_db2_coeffs_lo_int' = [i \in 1..4 |-> FixedTap(dwt2_db2_coeffs_lo[i])]
    /\ dwt2_db2_coeffs_hi_int' = [i \in 1..4 |-> FixedTap(dwt2_db2_coeffs_hi[i])]
    /\ phase' = "ready"
    /\ heap' = seed
    /\ UNCHANGED <<adm_sum, nb_frames, out, average, seen, call, band_in,
                   band_out, contexts>>

\* ff_adm_init returning AVERROR(ENOMEM): the arena allocation failed, the
\* tables are not filled.
ff_adm_init_nomem(w, h, d) ==
    /\ phase = "new"
    /\ width' = w /\ height' = h /\ depth' = d
    /\ phase' = "nomem"
    /\ UNCHANGED <<data_buf, temp_lo, temp_hi, adm_sum, nb_frames,
                   dwt2_db2_coeffs_lo_int, dwt2_db2_coeffs_hi_int, out, average,
                   heap, seen, call, band_in, band_out, contexts>>

\* The arena, the scratch rows and the cell next to them all hold zero.
AllZero(st, seed, w, h) ==
    /\ \A k \in 1..Len(st.buf) : st.buf[k] = 0
    /\ \A k \in 1..Len(st.temp_lo) : st.temp_lo[k] = 0
    /\ \A k \in 1..Len(st.temp_hi) : st.temp_hi[k] = 0
    /\ OutOfBoundsValue(seed, w, h) = 0

\* do_adm for a frame pair: ff_adm_process, then the frame count and the
\* running sum.  (With no reference frame do_adm forwards main and changes
\* nothing.)
do_adm(pair) ==
    /\ phase = "ready"
    /\ nb_frames < MaxFrames
    /\ LET ctx == [width |-> width, height |-> height, depth |-> depth,
                   filter_lo |-> dwt2_db2_coeffs_lo_int,
                   filter_hi |-> dwt2_db2_coeffs_hi_int]
           st == [buf |-> data_buf, temp_lo |-> temp_lo, temp_hi |-> temp_hi]
       IN  \E res \in {ff_adm_process(st, ctx,
                                      RefFrame(pair, width, height, depth),
                                      MainFrame(pair, width, height, depth),
                                      OutOfBoundsValue(heap, width, height))} :
           /\ data_buf' = res.st.buf
           /\ temp_lo' = res.st.temp_lo
           /\ temp_hi' = res.st.temp_hi
           /\ out' = [score |-> res.score, score_num |-> res.score_num,
                      score_den |-> res.score_den, scores |-> res.scores]
           /\ nb_frames' = nb_frames + 1
           /\ adm_sum' = adm_sum + res.score
           /\ seen' = Append(seen, res.score)
           /\ call' = [pair |-> pair, wrote |-> res.st # st,
                       clean |-> AllZero(st, heap, width, height),
                       dwt |-> res.dwt,
                       prev |-> [pair |-> call.pair, out |-> out]]
    /\ UNCHANGED <<phase, width, height, depth, dwt2_db2_coeffs_lo_int,
                   dwt2_db2_coeffs_hi_int, average, heap, band_in, band_out,
                   contexts>>

\* A variant of MeanDiv that counts one frame too many.
MeanDivOneMore(sum, n) == (2 * sum + n + 1) \div (2 * (n + 1))

\* adm_sum / nb_frames as a double: rounded to the nearest representable value.
MeanDiv(sum, n) == (2 * sum + n) \div (2 * n)

\* ff_adm_uninit: frees the three buffers and returns the average.
ff_adm_uninit ==
    /\ phase # "closed"
    /\ average' = IF nb_frames > 0 THEN MeanDiv(adm_sum, nb_frames) ELSE 0
    /\ data_buf' = << >> /\ temp_lo' = << >> /\ temp_hi' = << >>
    /\ phase' = "closed"
    /\ UNCHANGED <<width, height, depth, adm_sum, nb_frames,
                   dwt2_db2_coeffs_lo_int, dwt2_db2_coeffs_hi_int, out, heap,
                   seen, call, band_in, band_out, contexts>>

Next ==
    \/ \E w \in 1..MaxW, h \in 1..MaxH, d \in Depths, seed \in Seeds :
           ff_adm_init(w, h, d, seed)
    \/ \E w \in 1..MaxW, h \in 1..MaxH, d \in Depths : ff_adm_init_nomem(w, h, d)
    \/ \E pair \in Pairs : do_adm(pair)
    \/ ff_adm_uninit

Spec == Init /\ [][Next]_vars

(***************************************************************************)
(* Several filter instances in one process, one after the other: the       *)
(* tables dwt2_db2_coeffs_lo_int and dwt2_db2_coeffs_hi_int are static,    *)
(* every ff_adm_init writes them, and they outlive the contexts.           *)
(***************************************************************************)
\* init of the next filter instance, after the previous one was closed: a
\* zero-initialised ADMContext.  The static tables keep what they hold.
init ==
    /\ phase = "closed"
    /\ contexts < MaxContexts
    /\ contexts' = contexts + 1
    /\ phase' = "new"
    /\ width' = 0 /\ height' = 0 /\ depth' = 0
    /\ data_buf' = << >> /\ temp_lo' = << >> /\ temp_hi' = << >>
    /\ adm_sum' = 0 /\ nb_frames' = 0
    /\ out' = NoOut
    /\ average' = 0
    /\ heap' = 0
    /\ seen' = << >>
    /\ call' = NoCall
    /\ UNCHANGED <<dwt2_db2_coeffs_lo_int, dwt2_db2_coeffs_hi_int, band_in,
                   band_out>>

\* The frame pairs evaluated here: what the frames hold has no part in what
\* the tables hold.
TablePairs == {"black", "distorted"}

NextTables ==
    \/ \E w \in 1..MaxW, h \in 1..MaxH, d \in Depths, seed \in Seeds :
           ff_adm_init(w, h, d, seed)
    \/ \E w \in 1..MaxW, h \in 1..MaxH, d \in Depths : ff_adm_init_nomem(w, h, d)
    \/ \E pair \in TablePairs : do_adm(pair)
    \/ ff_adm_uninit
    \/ init

SpecTables == Init /\ [][NextTables]_vars

(***************************************************************************)
(* adm_decouple on its own: one pixel with band values drawn from the      *)
(* int16_t range, the extremes, small values and values whose float gain   *)
(* rounds either way.                                                      *)
(***************************************************************************)
HBand == (-MaxBand..MaxBand) \cup {-32768, -13, -7, 7, 13, 41, 32767}

VBand == {-32768, -7, 0, 13, 32767}

DBand == {-32768, 0, 7, 13}

InitDecouple ==
    /\ phase = "pixel"
    /\ InitContext
    /\ \E oh \in HBand, th \in HBand, ov \in VBand, tv \in VBand,
          od \in DBand, td \in DBand :
           band_in = [o |-> <<oh, ov, od>>, t |-> <<th, tv, td>>]
    /\ band_out = [r |-> NoBand, a |-> NoBand]

\* The body of the pixel loop of adm_decouple.
decouple_pixel ==
    /\ phase = "pixel"
    /\ band_out' = adm_decouple(band_in.o, band_in.t)
    /\ phase' = "decoupled"
    /\ UNCHANGED <<width, height, depth, data_buf, temp_lo, temp_hi, adm_sum,
                   nb_frames, dwt2_db2_coeffs_lo_int, dwt2_db2_coeffs_hi_int,
                   out, average, heap, seen, call, band_in, contexts>>

NextDecouple == decouple_pixel

SpecDecouple == InitDecouple /\ [][NextDecouple]_vars

(***************************************************************************)
(* adm_sum_cube on its own: one band of w x h values.  The widths and      *)
(* heights are the small ones and the first ones that have a border in the *)
(* code; the values are small ones, ones whose cubes add up past 2^31 in a *)
(* few pixels and one whose cube alone passes 2^31.                        *)
(***************************************************************************)
PoolDims == (1..MaxPool) \cup {15, 25}

PoolValues == {0, 1, -3, 813, 1291}

PoolPatterns == {"fill", "frame", "core"}

\* The band: v everywhere, v on the outermost rows and columns only, or v
\* everywhere but there.
PoolBand(pat, v, w, h) ==
    Force([k \in 1..(w * h) |->
        LET i == (k - 1) \div w
            j == (k - 1) % w
            edge == i = 0 \/ j = 0 \/ i = h - 1 \/ j = w - 1
        IN  CASE pat = "fill" -> v
              [] pat = "frame" -> IF edge THEN v ELSE 0
              [] OTHER -> IF edge THEN 0 ELSE v])

InitSumCube ==
    /\ phase = "band"
    /\ InitContext
    /\ \E w \in PoolDims, h \in PoolDims, v \in PoolValues, pat \in PoolPatterns :
           band_in = [x |-> PoolBand(pat, v, w, h), w |-> w, h |-> h]
    /\ band_out = 0

\* One call of adm_sum_cube on the band.
sum_cube_band ==
    /\ phase = "band"
    /\ band_out' = adm_sum_cube(band_in.x, band_in.w, band_in.h)
    /\ phase' = "pooled"
    /\ UNCHANGED <<width, height, depth, data_buf, temp_lo, temp_hi, adm_sum,
                   nb_frames, dwt2_db2_coeffs_lo_int, dwt2_db2_coeffs_hi_int,
                   out, average, heap, seen, call, band_in, contexts>>

NextSumCube == sum_cube_band

SpecSumCube == InitSumCube /\ [][NextSumCube]_vars

(***************************************************************************)
(* adm_cm_thresh and adm_dwt2_8bit on their own: one plane of w x h        *)
(* values, every arrangement of two sample values.  Widths and heights     *)
(* start at 2, where every reflected index of the transform is in range.   *)
(***************************************************************************)
PlaneDims == 2..MaxPlane

PlaneValues == {0, 100}

\* The planes of w x h values, row by row.
Planes(w, h) == [1..(w * h) -> PlaneValues]

\* adm_cm_thresh over a quad whose three detail bands all hold x: the plane
\* dst, row by row.
ThreshPlane(x, w, h) ==
    Eval1(Force(x), LAMBDA b :
        Force([p \in 1..(w * h) |->
                  adm_cm_thresh(b, b, b, (p - 1) \div w, (p - 1) % w, w, h)]))

\* adm_dwt2_8bit of the plane x into the quad at ref_dwt2, on a context of
\* width w and height h with zero-filled buffers: the bands <<a, h, v, d>>
\* of the quad, each (w + 1) / 2 x (h + 1) / 2 values row by row.
DwtQuad(x, w, h) ==
    Eval3([buf |-> AllocArena(0, w, h), temp_lo |-> AllocTempLo(0, w, h),
           temp_hi |-> AllocTempHi(0, w, h)],
          [plane |-> Force(x), base |-> 0, px_stride |-> w],
          [lo |-> Force([i \in 1..4 |-> FixedTap(dwt2_db2_coeffs_lo[i])]),
           hi |-> Force([i \in 1..4 |-> FixedTap(dwt2_db2_coeffs_hi[i])])],
          LAMBDA st, src, filter :
    Eval3(adm_dwt2(st, src, REF_DWT2, filter, [w |-> w, h |-> h], 0, 0),
          BufElems(w, h), BufPxStride(w), LAMBDA st1, B, S :
        LET w2 == (w + 1) \div 2
            h2 == (h + 1) \div 2
            Out(n) == Force([p \in 1..(w2 * h2) |->
                          Band(st1.buf, REF_DWT2 + n, B, S,
                               (p - 1) \div w2, (p - 1) % w2)])
        IN  <<Out(0), Out(1), Out(2), Out(3)>>))

\* "bands": x is handed to adm_cm_thresh; "plane": to adm_dwt2_8bit.
InitPlane ==
    /\ phase \in {"bands", "plane"}
    /\ InitContext
    /\ \E w \in PlaneDims, h \in PlaneDims :
           \E x \in Planes(w, h) : band_in = [x |-> Force(x), w |-> w, h |-> h]
    /\ band_out = << >>

\* One call of adm_cm_thresh on the plane.
cm_thresh_plane ==
    /\ phase = "bands"
    /\ band_out' = ThreshPlane(band_in.x, band_in.w, band_in.h)
    /\ phase' = "thresholded"
    /\ UNCHANGED <<width, height, depth, data_buf, temp_lo, temp_hi, adm_sum,
                   nb_frames, dwt2_db2_coeffs_lo_int, dwt2_db2_coeffs_hi_int,
                   out, average, heap, seen, call, band_in, contexts>>

\* One call of adm_dwt2_8bit on the plane.
dwt2_plane ==
    /\ phase = "plane"
    /\ band_out' = DwtQuad(band_in.x, band_in.w, band_in.h)
    /\ phase' = "transformed"
    /\ UNCHANGED <<width, height, depth, data_buf, temp_lo, temp_hi, adm_sum,
                   nb_frames, dwt2_db2_coeffs_lo_int, dwt2_db2_coeffs_hi_int,
                   out, average, heap, seen, call, band_in, contexts>>

NextPlane == cm_thresh_plane \/ dwt2_plane

SpecPlane == InitPlane /\ [][NextPlane]_vars

(***************************************************************************)
(* Properties.                                                             *)
(***************************************************************************)
RECURSIVE SumSeq(_)
SumSeq(q) == IF q = << >> THEN 0 ELSE Head(q) + SumSeq(Tail(q))

\* The sums of the per-scale numerators and denominators of the last call.
NumSum == out.scores[1] + out.scores[3] + out.scores[5] + out.scores[7]

DenSum == out.scores[2] + out.scores[4] + out.scores[6] + out.scores[8]

Evaluated == call.pair # "none"

\* C1: every evaluation adds one to the frame count and its score to the
\* running sum, and ff_adm_uninit returns the arithmetic mean of the scores
\* seen (to the nearest representable value), 0 when there were none.
C1_RunningMean ==
    /\ nb_frames = Len(seen)
    /\ adm_sum = SumSeq(seen)
    /\ phase = "closed" =>
           IF Len(seen) = 0 THEN average = 0
           ELSE /\ 2 * (average * Len(seen) - SumSeq(seen)) <= Len(seen)
                /\ 2 * (SumSeq(seen) - average * Len(seen)) <= Len(seen)

\* A context closed after two evaluations with different scores.
C1_Witness ==
    /\ phase = "closed"
    /\ Len(seen) = 2
    /\ seen[1] # seen[2]
    /\ average > 0

\* C2: a pair with identical planes, of a supported depth and of the
\* context's dimensions, scores 1.0 within 0.01.
C2_IdenticalPairScoresOne ==
    (call.pair \in {"black", "dot"} /\ depth \in {8, 10}) =>
        /\ 100 * (out.score - ScoreOne) <= ScoreOne
        /\ 100 * (ScoreOne - out.score) <= ScoreOne

C4_ClampAndRatio ==
    Evaluated =>
        /\ width * height <= 100 * 1920 * 1080
        /\ out.score_num = IF NumSum <= 0 THEN 0 ELSE NumSum
        /\ out.score_den = IF DenSum <= 0 THEN 0 ELSE DenSum
        /\ IF out.score_den = 0 THEN out.score = ScoreOne
           ELSE /\ 2 * (out.score * out.score_den - out.score_num * ScoreOne)
                       <= out.score_den
                /\ 2 * (out.score_num * ScoreOne - out.score * out.score_den)
                       <= out.score_den

\* A call whose denominator sum was negative and was replaced by zero.
C4_Witness ==
    /\ Evaluated
    /\ DenSum < 0
    /\ NumSum > 0
    /\ out.score_den = 0
    /\ out.score = ScoreOne

\* C5: every per-scale numerator and denominator is non-negative and the
\* score is never negative.
C5_NonNegative ==
    Evaluated =>
        /\ \A k \in 1..Len(out.scores) : out.scores[k] >= 0
        /\ out.score >= 0

\* C6: for a pair of the context's dimensions and a supported depth, every
\* reflected row index of the vertical pass lies in [0, h) and every
\* reflected column index of the horizontal passes lies in [0, w), at every
\* scale.
C6_AccessesInBounds ==
    (call.pair \in {"black", "dot", "distorted"} /\ depth \in {8, 10}) =>
        \A k \in 1..Len(call.dwt) :
            /\ call.dwt[k].rows \subseteq 0..(call.dwt[k].dims.h - 1)
            /\ call.dwt[k].cols \subseteq 0..(call.dwt[k].dims.w - 1)

\* C7: a pair whose dimensions differ from the context's, or a depth that is
\* neither 8 nor 10, is rejected before any computation: nothing is written
\* to the arena or the scratch rows and no output is produced.
C7_MalformedRejected ==
    (call.pair = "wide" \/ (Evaluated /\ depth \notin {8, 10})) =>
        ~call.wrote /\ out = call.prev.out

\* The outputs of the pair on a context of the same width, height and depth
\* whose arena and scratch rows hold zero.
OutputsOnZeroed(pair) ==
    Eval1(ff_adm_process([buf |-> AllocArena(0, width, height),
                          temp_lo |-> AllocTempLo(0, width, height),
                          temp_hi |-> AllocTempHi(0, width, height)],
                         [width |-> width, height |-> height, depth |-> depth,
                          filter_lo |-> dwt2_db2_coeffs_lo_int,
                          filter_hi |-> dwt2_db2_coeffs_hi_int],
                         RefFrame(pair, width, height, depth),
                         MainFrame(pair, width, height, depth),
                         OutOfBoundsValue(heap, width, height)),
          LAMBDA res :
              [score |-> res.score, score_num |-> res.score_num,
               score_den |-> res.score_den, scores |-> res.scores])

\* C8: the outputs depend only on the two planes and the context's width,
\* height and depth, whatever the arena and the scratch rows held before the
\* call: they are the outputs the same pair has on a zero-filled arena.
C8_OutputsIndependentOfArena ==
    (call.pair \in {"black", "dot", "distorted"} /\ depth \in {8, 10}
        /\ width >= 2 /\ height >= 2) =>
        out = OutputsOnZeroed(call.pair)

\* C9: at every scale k the transform runs over the working dimensions
\* (w_k, h_k), w_0 = width, h_0 = height, halved (rounding up) from scale to
\* scale, and the later stages use ceil(w_k / 2) x ceil(h_k / 2).
C9_DwtUsesWorkingDims ==
    \A k \in 1..Len(call.dwt) :
        /\ call.dwt[k].w_k = (IF k = 1 THEN width ELSE call.dwt[k - 1].w)
        /\ call.dwt[k].h_k = (IF k = 1 THEN height ELSE call.dwt[k - 1].h)
        /\ call.dwt[k].dims = [w |-> call.dwt[k].w_k, h |-> call.dwt[k].h_k]
        /\ call.dwt[k].w = (call.dwt[k].w_k + 1) \div 2
        /\ call.dwt[k].h = (call.dwt[k].h_k + 1) \div 2

\* C10: for each orientation, restored + additive differs from the distorted
\* value by at most 1.
C10_DecoupleConsistent ==
    phase = "decoupled" =>
        \A c \in 1..3 :
            /\ band_out.r[c] + band_out.a[c] - band_in.t[c] <= 1
            /\ band_in.t[c] - band_out.r[c] - band_out.a[c] <= 1

\* A pixel whose angle test fails and whose gain, rounded to float, leaves
\* restored + additive one above the distorted value.
C10_Witness ==
    /\ phase = "decoupled"
    /\ \E c \in 1..3 :
           /\ band_in.o[c] # 0
           /\ band_out.a[c] # 0
           /\ band_out.r[c] + band_out.a[c] - band_in.t[c] = 1


(***************************************************************************)
(* Exact arithmetic for the pooled sum: a natural number hi * 2^16 + lo as *)
(* <<hi, lo>>, hi not reduced.                                             *)
(***************************************************************************)
\* n^3 for 0 <= n <= 32768.
ExactCube(n) ==
    LET sq == n * n
        low == (sq % 65536) * n
    IN  <<(sq \div 65536) * n + (low \div 65536), low % 65536>>

ExactAdd(a, b) ==
    LET lo == a[2] + b[2]
    IN  <<a[1] + b[1] + (lo \div 65536), lo % 65536>>

ExactLeq(a, b) == a[1] < b[1] \/ (a[1] = b[1] /\ a[2] <= b[2])

\* acc plus the sum of |x|^3 over columns j..right-1 of row i.
RECURSIVE ExactRowSum(_, _, _, _, _, _)
ExactRowSum(x, w, i, j, right, acc) ==
    IF j >= right THEN acc
    ELSE Eval1(ExactAdd(acc, ExactCube(FFABS(x[i * w + j + 1]))), LAMBDA a :
             ExactRowSum(x, w, i, j + 1, right, a))

\* acc plus the sum of |x|^3 over rows i..bottom-1 and columns left..right-1.
RECURSIVE ExactCubeSum(_, _, _, _, _, _, _)
ExactCubeSum(x, w, i, bottom, left, right, acc) ==
    IF i >= bottom THEN acc
    ELSE Eval1(ExactRowSum(x, w, i, left, right, acc), LAMBDA a :
             ExactCubeSum(x, w, i + 1, bottom, left, right, a))

\* ceil(cbrt(s)): the least n in lo..hi with n^3 >= s.
RECURSIVE ExactCeilCbrt(_, _, _)
ExactCeilCbrt(lo, hi, s) ==
    IF lo >= hi THEN hi
    ELSE Eval1((lo + hi) \div 2, LAMBDA mid :
             IF ExactLeq(s, ExactCube(mid)) THEN ExactCeilCbrt(lo, mid, s)
             ELSE ExactCeilCbrt(mid + 1, hi, s))

\* ceil(n * f) for f = 0.1.
CeilTenth(n) == (n + 9) \div 10

\* The value C11 states for a band.
InteriorPool(x, w, h) ==
    LET top == CeilTenth(h)
        left == CeilTenth(w)
        bottom == h - top
        right == w - left
        area == IF bottom > top /\ right > left
                THEN (bottom - top) * (right - left) ELSE 0
    IN  Eval1(ExactCubeSum(x, w, top, bottom, left, right, <<0, 0>>), LAMBDA s :
              ExactCeilCbrt(0, 32768, s))
          + (CHOOSE n \in 0..32 :
                 /\ 32 * n * n * n >= area
                 /\ \A m \in 0..(n - 1) : 32 * m * m * m < area)

\* C11: adm_sum_cube returns ceil(cbrt(sum of |x|^3)) + ceil(cbrt(area / 32))
\* where the sum runs over exactly the pixels with row in
\* [ceil(h f), h - ceil(h f)) and column in [ceil(w f), w - ceil(w f)),
\* f = 0.1, and area is the pixel count of that region.
C11_SumCubeOverInterior ==
    phase = "pooled" => band_out = InteriorPool(band_in.x, band_in.w, band_in.h)


\* The plane x of w x h values with its rows, or its columns, in reverse order.
ReverseRows(x, w, h) ==
    Force([p \in 1..(w * h) |-> x[(h - 1 - ((p - 1) \div w)) * w + ((p - 1) % w) + 1]])

ReverseCols(x, w, h) ==
    Force([p \in 1..(w * h) |-> x[((p - 1) \div w) * w + (w - 1 - ((p - 1) % w)) + 1]])

\* C12: the mirror boundary indexing of adm_cm_thresh, and of the DWT, is
\* symmetric: filtering the input with its rows (or its columns) reversed
\* gives the output of the original input with its rows (or columns) reversed.
C12_MirrorSymmetric ==
    LET w == band_in.w
        h == band_in.h
        w2 == (w + 1) \div 2
        h2 == (h + 1) \div 2
    IN  /\ phase = "thresholded" =>
              /\ ThreshPlane(ReverseRows(band_in.x, w, h), w, h)
                     = ReverseRows(band_out, w, h)
              /\ ThreshPlane(ReverseCols(band_in.x, w, h), w, h)
                     = ReverseCols(band_out, w, h)
        /\ phase = "transformed" =>
              /\ DwtQuad(ReverseRows(band_in.x, w, h), w, h)
                     = [n \in 1..4 |-> ReverseRows(band_out[n], w2, h2)]
              /\ DwtQuad(ReverseCols(band_in.x, w, h), w, h)
                     = [n \in 1..4 |-> ReverseCols(band_out[n], w2, h2)]


\* round(tap * 2^15) for the taps 0.482962913144690, 0.836516303737469,
\* 0.224143868041857, -0.129409522550921 and for the high-pass ones.
RoundedLo == <<15826, 27411, 7345, -4240>>

RoundedHi == <<-4240, -7345, 27411, -15826>>

Populated ==
    \/ dwt2_db2_coeffs_lo_int # <<0, 0, 0, 0>>
    \/ dwt2_db2_coeffs_hi_int # <<0, 0, 0, 0>>

\* C13: whenever a transform runs (a context is ready and a frame pair is
\* evaluated) the static tables hold round(tap * 2^15) for the four low-pass
\* and the four high-pass taps, and once populated they never change under
\* any later ff_adm_init, ff_adm_process or ff_adm_uninit call on any
\* context.
C13_TablesConstant ==
    /\ [](phase = "ready" =>
              /\ dwt2_db2_coeffs_lo_int = RoundedLo
              /\ dwt2_db2_coeffs_hi_int = RoundedHi)
    /\ [][Populated =>
              /\ dwt2_db2_coeffs_lo_int' = dwt2_db2_coeffs_lo_int
              /\ dwt2_db2_coeffs_hi_int' = dwt2_db2_coeffs_hi_int]_vars

\* A second context was initialised and evaluated a pair on the tables the
\* first one populated.
C13_Witness ==
    /\ contexts > 1
    /\ phase = "ready"
    /\ nb_frames > 0
    /\ dwt2_db2_coeffs_lo_int = RoundedLo
    /\ dwt2_db2_coeffs_hi_int = RoundedHi


\* C14: at a pixel where the reference H and V values are both zero the angle
\* test fires whatever the distorted values are: for all three orientations
\* the restored value is the distorted value and the additive value is 0.
C14_FlatReferenceAligned ==
    (phase = "decoupled" /\ band_in.o[1] = 0 /\ band_in.o[2] = 0) =>
        /\ band_out.r = band_in.t
        /\ band_out.a = <<0, 0, 0>>

\* A flat reference (its D value is not zero) against a distorted pixel with
\* detail in every orientation.
C14_Witness ==
    /\ phase = "decoupled"
    /\ band_in.o[1] = 0 /\ band_in.o[2] = 0 /\ band_in.o[3] # 0
    /\ band_in.t[1] # 0 /\ band_in.t[2] # 0 /\ band_in.t[3] # 0
    /\ band_in.t[3] # band_in.o[3]
    /\ band_out.r = band_in.t

=============================================================================
